---- MODULE Spec2Model ----
(***************************************************************************)
(* Model of index.js: the /login handler (Session Issuer), the             *)
(* authenticateToken middleware (Token Verifier) and the /execute-sp       *)
(* handler (Dynamic Call Dispatcher), with the usuarios table, the clock   *)
(* jsonwebtoken reads and the outcome of every pool.query as environment.  *)
(*                                                                         *)
(* One JavaScript turn (everything a handler does between two awaits) is   *)
(* one action: Node runs it to completion without interleaving.            *)
(***************************************************************************)
EXTENDS Integers, Sequences, FiniteSets, TLC

VARIABLES reqs, usuarios, now, ticks

vars == <<reqs, usuarios, now, ticks>>

(* ------------------------------ bounds --------------------------------- *)

\* longest params array a client sends
MaxParams == 2
\* number of times the clock is advanced
MaxTicks == 2

\* the requests of one run, numbered in order of arrival
Reqs == {1, 2}

(* --------------------------- JavaScript values ------------------------- *)

Undefined == [t |-> "undefined"]
Null == [t |-> "null"]
Str(s) == [t |-> "string", v |-> s]
Num(n) == [t |-> "number", v |-> n]
Arr(a) == [t |-> "array", v |-> a]

\* !x is false exactly for the truthy values
Truthy(x) ==
  CASE x.t = "undefined" -> FALSE
    [] x.t = "null" -> FALSE
    [] x.t = "string" -> x.v # ""
    [] x.t = "number" -> x.v # 0
    [] OTHER -> TRUE

IsArray(x) == x.t = "array"

\* String.prototype.startsWith
startsWith(s, p) == Len(s) >= Len(p) /\ SubSeq(s, 1, Len(p)) = p

\* Array.prototype.join over an array of strings
RECURSIVE join(_, _)
join(a, sep) ==
  IF Len(a) = 0 THEN ""
  ELSE IF Len(a) = 1 THEN a[1]
  ELSE a[1] \o sep \o join(Tail(a), sep)

\* variant: the placeholders numbered from the 0-based index itself
placeholdersZeroBased(params) ==
  join([k \in 1..Len(params) |-> "$" \o ToString(k - 1)], ",")

\* params.map((_, i) => `$${i + 1}`).join(','), i the 0-based index
placeholders(params) ==
  join([k \in 1..Len(params) |-> "$" \o ToString((k - 1) + 1)], ",")

(* ------------------------------- tokens -------------------------------- *)

\* expiresIn: '1h', in seconds
Hour == 3600

\* process.env.JWT_SECRET, and a key the server does not hold
JWT_SECRET == "secret"
OtherSecret == "other"

\* variant: a lifetime one second longer than the hour
jwtSignLonger(id, correo, secret, clock) ==
  [k |-> "jwt", id |-> id, correo |-> correo, iat |-> clock,
   exp |-> clock + Hour + 1, sig |-> secret]

\* jwt.sign(payload, secret, {expiresIn: '1h'}): iat is the clock in seconds
jwtSign(id, correo, secret, clock) ==
  [k |-> "jwt", id |-> id, correo |-> correo, iat |-> clock,
   exp |-> clock + Hour, sig |-> secret]

\* An Authorization header is a sequence of atoms: a space, a run of other
\* characters, or the compact serialisation of a token (which has no space).
SP == [k |-> "sp"]
Txt(s) == [k |-> "txt", s |-> s]

\* String.prototype.split(' ')
RECURSIVE split(_)
split(h) ==
  IF h = <<>> THEN << <<>> >>
  ELSE LET rest == split(Tail(h))
       IN IF Head(h) = SP THEN << <<>> >> \o rest
          ELSE << <<Head(h)>> \o rest[1] >> \o Tail(rest)

\* req.headers['authorization']?.split(' ')[1]
headerToken(auth) ==
  IF ~auth.present THEN [def |-> FALSE, seg |-> <<>>]
  ELSE LET segs == split(auth.val)
       IN IF Len(segs) >= 2 THEN [def |-> TRUE, seg |-> segs[2]]
          ELSE [def |-> FALSE, seg |-> <<>>]

\* variant: only a missing segment counts, not an empty one
NoTokenUndefinedOnly(tok) == ~tok.def

\* !token: undefined or the empty string
NoToken(tok) == ~tok.def \/ tok.seg = <<>>

\* variant: the signature is not checked
jwtVerifyErrAnyKey(seg, secret, clock) ==
  \/ Len(seg) # 1
  \/ seg[1].k # "jwt"
  \/ clock >= seg[1].exp

\* jwt.verify(token, secret): the error cases are a string that is not one
\* well-formed token, a signature made with another key, and clock >= exp
jwtVerifyErr(seg, secret, clock) ==
  \/ Len(seg) # 1
  \/ seg[1].k # "jwt"
  \/ seg[1].sig # secret
  \/ clock >= seg[1].exp

(* ------------------------------ database ------------------------------- *)

UserIds == {1, 2}

Usuarios0 ==
  [u \in UserIds |->
     IF u = 1
     THEN [usuario_id |-> 1, nombre |-> "Admin", apellido |-> "Piar",
           correo |-> "admin@piar.com", contrasena |-> "admin", activo |-> TRUE]
     ELSE [usuario_id |-> 2, nombre |-> "Ana", apellido |-> "Ruiz",
           correo |-> "ana@piar.com", contrasena |-> "ana", activo |-> FALSE]]

\* SELECT usuario_id, nombre, apellido, correo
Columns(row) ==
  [usuario_id |-> row.usuario_id, nombre |-> row.nombre,
   apellido |-> row.apellido, correo |-> row.correo]

\* variant: the WHERE clause without activo=true
RowMatchesInactive(row, values) ==
  /\ values[1].t = "string" /\ row.correo = values[1].v
  /\ values[2].t = "string" /\ row.contrasena = values[2].v

\* WHERE correo=$1 AND contrasena=$2 AND activo=true; a parameter that is
\* not a string is NULL or a value no text column equals
RowMatches(row, values) ==
  /\ values[1].t = "string" /\ row.correo = values[1].v
  /\ values[2].t = "string" /\ row.contrasena = values[2].v
  /\ row.activo

RECURSIVE SelectFrom(_, _, _)
SelectFrom(tbl, ids, values) ==
  IF ids = {} THEN <<>>
  ELSE LET u == CHOOSE x \in ids : \A y \in ids : x <= y
           rest == SelectFrom(tbl, ids \ {u}, values)
       IN IF RowMatches(tbl[u], values) THEN <<Columns(tbl[u])>> \o rest
          ELSE rest

LoginQueryText ==
  "SELECT usuario_id, nombre, apellido, correo FROM usuarios WHERE correo=$1 AND contrasena=$2 AND activo=true"

\* what a procedure or a function of the database may return
RowA == [c |-> "a"]
RowB == [c |-> "b"]
ResultSets == {<<>>, <<RowA, RowB>>, <<RowB, RowA>>}

\* err.message of a rejected pool.query
DbErrors == {"connect ECONNREFUSED", "function does not exist"}

(* ------------------------------ requests ------------------------------- *)

NoHeader == [present |-> FALSE, val |-> <<>>]
Header(h) == [present |-> TRUE, val |-> h]

\* req.body as the handlers see it: an object (a field the client left out
\* reads as undefined), or undefined when the body parser set nothing
Body(username, password, spName, params) ==
  [t |-> "object", username |-> username, password |-> password,
   spName |-> spName, params |-> params]

\* the promise pool.query returned: pending, resolved with rows, or rejected
\* with an error
Pending == [state |-> "pending"]
Resolved(rows) == [state |-> "resolved", rows |-> rows]
Rejected(message) == [state |-> "rejected", message |-> message]

\* a request: where its handler stands (pc), what the client sent (ep, auth,
\* body), the clock when it arrived (at), whether next() ran the handler,
\* the statements it passed to pool.query, the promise it awaits, and the
\* responses written to res
Idle ==
  [pc |-> "idle", ep |-> "none", auth |-> NoHeader, body |-> Undefined,
   at |-> 0, handler |-> FALSE, stmts |-> <<>>, res |-> Pending, resp |-> <<>>]

Message(m) == [kind |-> "message", message |-> m]

\* res.status(status).json(body), res.json(body), res.sendStatus(status)
send(q, status, body) ==
  [q EXCEPT !.resp = Append(@, [status |-> status, body |-> body]),
            !.pc = "responded"]

\* pool.query(text, values): the handler is suspended at `at`
query(q, text, values, at) ==
  [q EXCEPT !.stmts = Append(@, [text |-> text, values |-> values]),
            !.pc = at]

(* ------------------------------- /login -------------------------------- *)

\* from the destructuring of req.body to the await of pool.query
loginStart(q) ==
  IF q.body.t = "undefined" THEN [q EXCEPT !.pc = "uncaught"]
  ELSE query(q, LoginQueryText, <<q.body.username, q.body.password>>,
             "login_await")

\* from the resolution of pool.query to the response
loginResume(q, rows, clock) ==
  IF Len(rows) = 0
  THEN send(q, 400, Message("Correo o contrasena incorrectos"))
  ELSE LET user == rows[1]
       IN send(q, 200,
               [kind |-> "login",
                token |-> jwtSign(user.usuario_id, user.correo, JWT_SECRET, clock),
                usuario |-> user])

\* variant: the catch block issues the statement again
loginCatchRetry(q, message) ==
  query(q, LoginQueryText, <<q.body.username, q.body.password>>, "login_await")

\* catch (err)
loginCatch(q, message) == send(q, 500, Message(message))

(* ----------------------------- /execute-sp ----------------------------- *)

\* !spName || !Array.isArray(params)
fieldsMissing(spName, params) == ~Truthy(spName) \/ ~IsArray(params)

isProcedure(spName) == startsWith(spName, "sp_")

\* variant: the second prefix without its underscore
isFunctionLoose(spName) == startsWith(spName, "fn_") \/ startsWith(spName, "consultar")

isFunction(spName) == startsWith(spName, "fn_") \/ startsWith(spName, "consultar_")

callQuery(spName, ph) == "CALL " \o spName \o "(" \o ph \o ")"

selectQuery(spName, ph) == "SELECT * FROM " \o spName \o "(" \o ph \o ")"

\* from the destructuring of req.body to the await of pool.query or the
\* response; a value without startsWith throws inside the try
executeSpStart(q) ==
  IF q.body.t = "undefined" THEN [q EXCEPT !.pc = "uncaught"]
  ELSE LET spName == q.body.spName
           params == q.body.params
       IN IF fieldsMissing(spName, params)
          THEN send(q, 400, Message("spName y params son requeridos"))
          ELSE IF spName.t # "string"
          THEN send(q, 500, Message("spName.startsWith is not a function"))
          ELSE IF isProcedure(spName.v)
          THEN query(q, callQuery(spName.v, placeholders(params.v)), params.v,
                     "call_await")
          ELSE IF isFunction(spName.v)
          THEN query(q, selectQuery(spName.v, placeholders(params.v)), params.v,
                     "select_await")
          ELSE send(q, 400, Message("No se reconoce si es FUNCTION o PROCEDURE"))

\* variant: the function branch answers with rows[0] alone, as /login reads it
executeSpResumeFirstRow(q, rows) ==
  IF q.pc = "call_await"
  THEN send(q, 200, Message(q.body.spName.v \o " ejecutado correctamente"))
  ELSE send(q, 200, [kind |-> "rows",
                     rows |-> IF Len(rows) = 0 THEN rows ELSE <<rows[1]>>])

\* from the resolution of pool.query to the response
executeSpResume(q, rows) ==
  IF q.pc = "call_await"
  THEN send(q, 200, Message(q.body.spName.v \o " ejecutado correctamente"))
  ELSE send(q, 200, [kind |-> "rows", rows |-> rows])

\* catch (err)
executeSpCatch(q, message) == send(q, 500, Message(message))

\* the middleware in front of the handler; next() runs the handler
authenticateToken(q, clock) ==
  LET token == headerToken(q.auth)
  IN IF NoToken(token) THEN send(q, 401, [kind |-> "status"])
     ELSE IF jwtVerifyErr(token.seg, JWT_SECRET, clock)
     THEN send(q, 403, [kind |-> "status"])
     ELSE executeSpStart([q EXCEPT !.handler = TRUE])

(* ------------------------------- clients ------------------------------- *)

\* the tokens /login has handed out so far
IssuedTokens ==
  {reqs[r].resp[1].body.token :
     r \in {x \in Reqs : /\ reqs[x].ep = "login"
                         /\ reqs[x].pc = "responded"
                         /\ reqs[x].resp[1].status = 200}}

\* a token made without the server's key
Forged == jwtSign(1, "admin@piar.com", OtherSecret, 0)

Bearer == Txt("Bearer")

\* headers that carry the token t somewhere (Node strips the spaces around a
\* header value, so none starts or ends with one)
HeadersWith(t) ==
  {<<Bearer, SP, t>>, <<Bearer, SP, SP, t>>, <<t>>,
   <<Bearer, SP, t, SP, Txt("x")>>, <<Bearer, SP, t, Txt("x")>>}

\* headers that carry no token
HeadersWithout ==
  {<<>>, <<Bearer>>, <<Bearer, SP, Txt("garbage")>>}

AuthHeaders ==
  {NoHeader}
    \cup {Header(h) : h \in HeadersWithout}
    \cup {Header(h) : h \in UNION {HeadersWith(t) : t \in IssuedTokens \cup {Forged}}}

RECURSIVE SeqsUpTo(_, _)
SeqsUpTo(S, n) ==
  IF n = 0 THEN {<<>>}
  ELSE LET shorter == SeqsUpTo(S, n - 1)
       IN shorter \cup {Append(a, x) : a \in {b \in shorter : Len(b) = n - 1}, x \in S}

ArgValues == {Str("Carlos"), Null}

SpNames ==
  {Undefined, Str(""), Num(7), Str("sp_a"), Str("sp_"), Str("fn_b"),
   Str("consultar_c"), Str("bad_name"), Str("sp"), Str("consultar")}

ParamValues ==
  {Undefined, Str("x")} \cup {Arr(a) : a \in SeqsUpTo(ArgValues, MaxParams)}

ExecBodies ==
  {Undefined}
    \cup {Body(Undefined, Undefined, n, p) : n \in SpNames, p \in ParamValues}

LoginBodies ==
  {Undefined}
    \cup {Body(u, p, Undefined, Undefined) :
            u \in {Undefined, Str("admin@piar.com"), Str("ana@piar.com")},
            p \in {Str("admin"), Str("ana")}}

\* what a client sends to /execute-sp: any header with one well-formed body,
\* or any body behind the usual header with a token /login gave it
ExecInputs ==
  {[auth |-> a, body |-> Body(Undefined, Undefined, Str("sp_a"), Arr(<<>>))] :
     a \in AuthHeaders}
    \cup {[auth |-> Header(<<Bearer, SP, t>>), body |-> b] :
            t \in IssuedTokens, b \in ExecBodies}

(* ------------------------------- actions ------------------------------- *)

Init ==
  /\ reqs = [r \in Reqs |-> Idle]
  /\ usuarios = Usuarios0
  /\ now = 0
  /\ ticks = 0

Arrives(r) ==
  /\ reqs[r].pc = "idle"
  /\ \A x \in Reqs : x < r => reqs[x].pc # "idle"

\* app.post('/login', ...): the request arrives and the handler runs to its await
ReceiveLogin(r) ==
  /\ Arrives(r)
  /\ \E b \in LoginBodies :
       reqs' = [reqs EXCEPT ![r] = loginStart([Idle EXCEPT !.ep = "login", !.body = b, !.at = now])]
  /\ UNCHANGED <<usuarios, now, ticks>>

\* app.post('/execute-sp', authenticateToken, ...): the request arrives, the
\* middleware runs and, if it calls next(), the handler runs to its await
ReceiveExecuteSp(r) ==
  /\ Arrives(r)
  /\ \E in \in ExecInputs :
       reqs' = [reqs EXCEPT ![r] =
                  authenticateToken([Idle EXCEPT !.ep = "exec", !.auth = in.auth,
                                                 !.body = in.body, !.at = now], now)]
  /\ UNCHANGED <<usuarios, now, ticks>>

Awaiting(r) == reqs[r].pc \in {"login_await", "call_await", "select_await"}

\* the promise of pool.query resolves and the handler runs to its end
QueryResolves(r) ==
  /\ Awaiting(r)
  /\ \E rows \in IF reqs[r].pc = "login_await"
                 THEN {SelectFrom(usuarios, UserIds, reqs[r].stmts[Len(reqs[r].stmts)].values)}
                 ELSE ResultSets :
       LET q == [reqs[r] EXCEPT !.res = Resolved(rows)]
       IN reqs' = [reqs EXCEPT ![r] =
                     IF q.pc = "login_await" THEN loginResume(q, rows, now)
                     ELSE executeSpResume(q, rows)]
  /\ UNCHANGED <<usuarios, now, ticks>>

\* the promise of pool.query rejects and the catch block runs
QueryRejects(r) ==
  /\ Awaiting(r)
  /\ \E e \in DbErrors :
       LET q == [reqs[r] EXCEPT !.res = Rejected(e)]
       IN reqs' = [reqs EXCEPT ![r] =
                     IF q.pc = "login_await" THEN loginCatch(q, e)
                     ELSE executeSpCatch(q, e)]
  /\ UNCHANGED <<usuarios, now, ticks>>

\* a throw outside the try rejects the handler's promise; a router that
\* forwards the rejection answers 500 with its own error handler
DefaultErrorHandler(r) ==
  /\ reqs[r].pc = "uncaught"
  /\ reqs' = [reqs EXCEPT ![r] = send(@, 500, [kind |-> "router"])]
  /\ UNCHANGED <<usuarios, now, ticks>>

\* the clock jwt.sign and jwt.verify read
Tick ==
  /\ ticks < MaxTicks
  /\ \E d \in {1, Hour - 1} : now' = now + d
  /\ ticks' = ticks + 1
  /\ UNCHANGED <<reqs, usuarios>>

\* another client of the database activates or deactivates a user
SetActivo(u) ==
  /\ usuarios' = [usuarios EXCEPT ![u].activo = ~@]
  /\ UNCHANGED <<reqs, now, ticks>>

Next ==
  \/ \E r \in Reqs : ReceiveLogin(r)
  \/ \E r \in Reqs : ReceiveExecuteSp(r)
  \/ \E r \in Reqs : QueryResolves(r)
  \/ \E r \in Reqs : QueryRejects(r)
  \/ \E r \in Reqs : DefaultErrorHandler(r)
  \/ Tick
  \/ \E u \in UserIds : SetActivo(u)

Spec == Init /\ [][Next]_vars

(* ----------------------- vocabulary of the properties ------------------ *)

Arrived(r) == reqs[r].pc # "idle"
Done(r) == reqs[r].pc = "responded"
Login(r) == Arrived(r) /\ reqs[r].ep = "login"
Exec(r) == Arrived(r) /\ reqs[r].ep = "exec"

\* the request was answered once, with this status
Answered(q, status) ==
  q.pc = "responded" /\ Len(q.resp) = 1 /\ q.resp[1].status = status

\* the dispatcher ran behind the middleware and found a body to read
Dispatched(r) == Exec(r) /\ reqs[r].handler /\ reqs[r].body.t = "object"

HasSpace(h) == \E i \in 1..Len(h) : h[i] = SP

FirstSpace(h) == CHOOSE i \in 1..Len(h) : h[i] = SP /\ \A j \in 1..(i - 1) : h[j] # SP

\* what stands between the first space of the header and the next one
TokenRun(h) ==
  LET f == FirstSpace(h)
      ends == {j \in (f + 1)..Len(h) : h[j] = SP} \cup {Len(h) + 1}
      e == CHOOSE j \in ends : \A x \in ends : j <= x
  IN SubSeq(h, f + 1, e - 1)

LacksToken(a) == ~a.present \/ ~HasSpace(a.val) \/ TokenRun(a.val) = <<>>

\* one whole token signed with the server's key
Genuine(run) == Len(run) = 1 /\ run[1].k = "jwt" /\ run[1].sig = JWT_SECRET

FailsVerification(run, clock) == ~Genuine(run) \/ clock - run[1].iat >= Hour

HasPrefix(s, p) == Len(s) >= Len(p) /\ s = p \o SubSeq(s, Len(p) + 1, Len(s))

\* $1,...,$n written from the right
RECURSIVE Dollars(_)
Dollars(n) ==
  IF n = 0 THEN ""
  ELSE IF n = 1 THEN "$1"
  ELSE Dollars(n - 1) \o ",$" \o ToString(n)

\* the rows of the table a credential pair selects
ActiveMatches(tbl, body) ==
  {u \in UserIds : /\ body.username = Str(tbl[u].correo)
                   /\ body.password = Str(tbl[u].contrasena)
                   /\ tbl[u].activo}

\* the step in which the promise awaited by /login settles and r is answered
LoginSettles(r) == reqs[r].pc = "login_await" /\ reqs'[r].pc = "responded"

(* ------------------------------ properties ----------------------------- *)

\* C1: a request to /execute-sp whose token is present but fails verification
\* (another key, malformed, expired) is answered 403, its handler is never
\* invoked and it makes no database call.
C1_InvalidTokenForbidden ==
  \A r \in Reqs :
    (/\ Exec(r)
     /\ ~LacksToken(reqs[r].auth)
     /\ FailsVerification(TokenRun(reqs[r].auth.val), reqs[r].at))
    => /\ Answered(reqs[r], 403)
       /\ ~reqs[r].handler
       /\ reqs[r].stmts = <<>>

\* an issued token presented an hour or more after issuance was refused
C1_Witness ==
  \E r \in Reqs :
    /\ Exec(r)
    /\ ~LacksToken(reqs[r].auth)
    /\ Genuine(TokenRun(reqs[r].auth.val))
    /\ reqs[r].at - TokenRun(reqs[r].auth.val)[1].iat >= Hour
    /\ Answered(reqs[r], 403)

\* C2: a request to /execute-sp without an Authorization header, or with no
\* token segment after the first space of the header, is answered 401, its
\* handler is never invoked and it makes no database call.
C2_MissingTokenUnauthenticated ==
  \A r \in Reqs :
    (Exec(r) /\ LacksToken(reqs[r].auth))
    => /\ Answered(reqs[r], 401)
       /\ ~reqs[r].handler
       /\ reqs[r].stmts = <<>>

\* a header with a space and nothing right after it was answered 401
C2_Witness ==
  \E r \in Reqs :
    /\ Exec(r)
    /\ reqs[r].auth.present
    /\ HasSpace(reqs[r].auth.val)
    /\ TokenRun(reqs[r].auth.val) = <<>>
    /\ Answered(reqs[r], 401)

\* what C3 says of every state: the subject of a token /login returned is the
\* identifier of the row the credentials name, and a token signed by /login
\* passes the middleware exactly when it arrives less than an hour after iat
C3_State ==
  /\ \A r \in Reqs :
       (Login(r) /\ Answered(reqs[r], 200))
       => /\ reqs[r].resp[1].body.kind = "login"
          /\ \E u \in UserIds :
               /\ reqs[r].body.username = Str(usuarios[u].correo)
               /\ reqs[r].body.password = Str(usuarios[u].contrasena)
               /\ reqs[r].resp[1].body.token.id = usuarios[u].usuario_id
  /\ \A r \in Reqs :
       (Exec(r) /\ ~LacksToken(reqs[r].auth) /\ Genuine(TokenRun(reqs[r].auth.val)))
       => LET t == TokenRun(reqs[r].auth.val)[1]
          IN IF reqs[r].at - t.iat < Hour
             THEN reqs[r].handler
             ELSE ~reqs[r].handler /\ Answered(reqs[r], 403)

\* what C3 says of the step that answers /login: credentials that select an
\* active row get a token, signed by the server, issued at the current clock
C3_Step ==
  \A r \in Reqs :
    (/\ LoginSettles(r)
     /\ reqs'[r].res.state = "resolved"
     /\ ActiveMatches(usuarios, reqs[r].body) # {})
    => /\ Answered(reqs'[r], 200)
       /\ reqs'[r].resp[1].body.kind = "login"
       /\ Genuine(<<reqs'[r].resp[1].body.token>>)
       /\ reqs'[r].resp[1].body.token.iat = now
       /\ reqs'[r].resp[1].body.token.id \in
            {usuarios[u].usuario_id : u \in ActiveMatches(usuarios, reqs[r].body)}

\* C3: credentials matching an active row get from /login a token whose
\* subject is that row's identifier; the middleware accepts the token at every
\* time less than one hour after issuance, whatever became of the row, and
\* rejects it from one hour after issuance on.
C3_TokenLifetime == []C3_State /\ [][C3_Step]_vars

\* a token was accepted in the last second of its hour although its user is
\* no longer active
C3_Witness ==
  \E r \in Reqs :
    /\ Exec(r)
    /\ ~LacksToken(reqs[r].auth)
    /\ Genuine(TokenRun(reqs[r].auth.val))
    /\ reqs[r].at - TokenRun(reqs[r].auth.val)[1].iat = Hour - 1
    /\ reqs[r].handler
    /\ \E u \in UserIds :
         /\ usuarios[u].usuario_id = TokenRun(reqs[r].auth.val)[1].id
         /\ ~usuarios[u].activo

C4_Step ==
  \A r \in Reqs :
    (LoginSettles(r) /\ ActiveMatches(usuarios, reqs[r].body) = {})
    => /\ reqs'[r].resp[1].body.kind # "login"
       /\ reqs'[r].res.state = "resolved" => Answered(reqs'[r], 400)

\* C4: when no row has the email, the password and activo=true (the right
\* email and password of an inactive user included), /login issues no token
\* and, the lookup having returned, answers 400.
C4_NoMatchNoToken == [][C4_Step]_vars

\* the right email and password of an inactive user were answered 400
C4_Witness ==
  \E r \in Reqs : \E u \in UserIds :
    /\ Login(r)
    /\ reqs[r].body.t = "object"
    /\ reqs[r].body.username = Str(usuarios[u].correo)
    /\ reqs[r].body.password = Str(usuarios[u].contrasena)
    /\ ~usuarios[u].activo
    /\ Answered(reqs[r], 400)
    /\ reqs[r].resp[1].body.kind = "message"

NonEmptyString(x) == x.t = "string" /\ x.v # ""

\* C5: an authenticated request whose spName is not a non-empty string, or
\* whose params are not an array, is answered 400 without database access.
C5_MalformedFieldsRejected ==
  \A r \in Reqs :
    (/\ Dispatched(r)
     /\ ~NonEmptyString(reqs[r].body.spName) \/ reqs[r].body.params.t # "array")
    => Answered(reqs[r], 400) /\ reqs[r].stmts = <<>>

\* C6: for an identifier starting with sp_ and an array of n arguments the
\* dispatcher issues the one statement CALL <identifier>($1,...,$n) with the
\* arguments bound in order; on success the rows are discarded and the answer
\* is 200 with a message naming the identifier.
C6_ProcedureCall ==
  \A r \in Reqs :
    (/\ Dispatched(r)
     /\ reqs[r].body.spName.t = "string"
     /\ HasPrefix(reqs[r].body.spName.v, "sp_")
     /\ reqs[r].body.params.t = "array")
    => LET name == reqs[r].body.spName.v
           args == reqs[r].body.params.v
       IN /\ reqs[r].stmts =
               <<[text |-> "CALL " \o name \o "(" \o Dollars(Len(args)) \o ")",
                  values |-> args]>>
          /\ reqs[r].res.state = "resolved"
               => /\ Answered(reqs[r], 200)
                  /\ reqs[r].resp[1].body.kind = "message"
                  /\ HasPrefix(reqs[r].resp[1].body.message, name \o " ")

\* a procedure was called with two arguments and the call succeeded
C6_Witness ==
  \E r \in Reqs :
    /\ Dispatched(r)
    /\ reqs[r].body.spName = Str("sp_a")
    /\ reqs[r].body.params = Arr(<<Null, Str("Carlos")>>)
    /\ reqs[r].stmts = <<[text |-> "CALL sp_a($1,$2)", values |-> <<Null, Str("Carlos")>>]>>
    /\ reqs[r].res.state = "resolved"
    /\ reqs[r].res.rows # <<>>
    /\ Answered(reqs[r], 200)

\* C7: for an identifier starting with fn_ or consultar_ and an array of n
\* arguments the dispatcher issues the one statement
\* SELECT * FROM <identifier>($1,...,$n) with the arguments bound in order; on
\* success the answer is 200 and its body is the rows the database returned,
\* all of them, in the same order.
C7_FunctionCall ==
  \A r \in Reqs :
    (/\ Dispatched(r)
     /\ reqs[r].body.spName.t = "string"
     /\ \/ HasPrefix(reqs[r].body.spName.v, "fn_")
        \/ HasPrefix(reqs[r].body.spName.v, "consultar_")
     /\ reqs[r].body.params.t = "array")
    => LET name == reqs[r].body.spName.v
           args == reqs[r].body.params.v
       IN /\ reqs[r].stmts =
               <<[text |-> "SELECT * FROM " \o name \o "(" \o Dollars(Len(args)) \o ")",
                  values |-> args]>>
          /\ reqs[r].res.state = "resolved"
               => /\ Answered(reqs[r], 200)
                  /\ reqs[r].resp[1].body = [kind |-> "rows", rows |-> reqs[r].res.rows]

\* a function returned two rows and the answer carries them in that order
C7_Witness ==
  \E r \in Reqs :
    /\ Dispatched(r)
    /\ reqs[r].body.spName = Str("consultar_c")
    /\ reqs[r].stmts = <<[text |-> "SELECT * FROM consultar_c($1)", values |-> <<Null>>]>>
    /\ reqs[r].res = Resolved(<<RowB, RowA>>)
    /\ Answered(reqs[r], 200)
    /\ reqs[r].resp[1].body.rows = <<RowB, RowA>>

\* C8: an authenticated request whose identifier is a non-empty string that
\* starts with none of sp_, fn_, consultar_ is answered 400 whatever its
\* arguments, and no statement is executed.
C8_UnknownPrefixRejected ==
  \A r \in Reqs :
    (/\ Dispatched(r)
     /\ NonEmptyString(reqs[r].body.spName)
     /\ ~HasPrefix(reqs[r].body.spName.v, "sp_")
     /\ ~HasPrefix(reqs[r].body.spName.v, "fn_")
     /\ ~HasPrefix(reqs[r].body.spName.v, "consultar_"))
    => Answered(reqs[r], 400) /\ reqs[r].stmts = <<>>

\* an identifier one character short of a prefix, with arguments, got 400
C8_Witness ==
  \E r \in Reqs :
    /\ Dispatched(r)
    /\ reqs[r].body.spName = Str("consultar")
    /\ reqs[r].body.params = Arr(<<Str("Carlos")>>)
    /\ Answered(reqs[r], 400)
    /\ reqs[r].resp[1].body = Message("No se reconoce si es FUNCTION o PROCEDURE")

\* C9: every request is answered exactly once by its handler, whatever its
\* body and whatever the database does: no failure leaves the handler
\* uncaught.  (The safety half: a request whose failure left the handler, or
\* that was answered by something other than its handler, refutes it.)
C9_NothingEscapesHandler ==
  \A r \in Reqs :
    /\ reqs[r].pc # "uncaught"
    /\ Done(r) => Len(reqs[r].resp) = 1 /\ reqs[r].resp[1].body.kind # "router"

\* C10: in both handlers a failed statement is answered 500 with the error's
\* message and is not retried: no request issues more than one statement.
C10_NoRetry ==
  \A r \in Reqs :
    /\ Len(reqs[r].stmts) <= 1
    /\ reqs[r].res.state = "rejected"
         => /\ Answered(reqs[r], 500)
            /\ reqs[r].resp[1].body = Message(reqs[r].res.message)
            /\ Len(reqs[r].stmts) = 1

\* a statement of the dispatcher failed and the answer is 500 with its message
C10_Witness ==
  \E r \in Reqs :
    /\ Exec(r)
    /\ reqs[r].res = Rejected("function does not exist")
    /\ Len(reqs[r].stmts) = 1
    /\ Answered(reqs[r], 500)
    /\ reqs[r].resp[1].body.message = "function does not exist"

====
